---- MODULE Spec2Model ----
(***************************************************************************)
(* Model of paddleaudio/transforms.py (STFT, Spectrogram, MelSpectrogram,  *)
(* LogMelSpectrogram) and of the training step of                          *)
(* SoundClassification/train_utils.py.                                     *)
(*                                                                         *)
(* Tensors are functions over 0-based index ranges, as in the code.        *)
(* Numbers are integers: the Hann window is held in fixed point with two   *)
(* fractional bits (1.0 is 4), and n_fft ranges over {2, 4}, for which the *)
(* DFT basis is exactly integer-valued (entries in {-1, 0, 1}).            *)
(***************************************************************************)
EXTENDS Integers, FiniteSets, TLC

VARIABLES
  obj,         \* the transform instance, NoInstance before construction
  args,        \* the arguments of the constructor call made, NoArgs before
  err,         \* the error the constructor call raised, "none" otherwise
  calls,       \* per thread: the forward call in progress or last finished
  trainSteps   \* number of optimizer steps taken

vars == <<obj, args, err, calls, trainSteps>>

(***************************************************************************)
(* Bounds and input sets                                                   *)
(***************************************************************************)
MaxLen == 5
MaxBatch == 2
MaxHop == 2
MaxTrain == 1

\* Python's None, for the optional integer arguments
None == -1
NFFTs == {2, 4}
HopLengths == {None} \cup (1..MaxHop)
WinLengths == {None, 3, 5}
Windows == {"hann", "bogus"}
PadModes == {"constant", "reflect", "edge"}
Powers == {2, 4}
SampleRates == {8, 9}
NMels == {1, 2}
Fmins == {0, 2}
Fmaxs == {None, 2, 5}
Grads == {1}
Threads == {1, 2}

(***************************************************************************)
(* Numeric helpers                                                         *)
(***************************************************************************)
RECURSIVE SumTo(_, _)
\* sum of f[0] + ... + f[n-1]
SumTo(f, n) == IF n = 0 THEN 0 ELSE f[n - 1] + SumTo(f, n - 1)

RECURSIVE Pow(_, _)
Pow(x, e) == IF e = 0 THEN 1 ELSE x * Pow(x, e - 1)

Max2(a, b) == IF a >= b THEN a ELSE b
Min2(a, b) == IF a <= b THEN a ELSE b

(***************************************************************************)
(* paddleaudio.functional (not part of the sources at hand): modelled from *)
(* its contract.                                                           *)
(***************************************************************************)
\* periodic Hann window of length n in fixed point (1.0 is 4), rounded
HannTable ==
  [n \in 1..5 |->
     CASE n = 1 -> <<4>>
       [] n = 2 -> <<0, 4>>
       [] n = 3 -> <<0, 3, 3>>
       [] n = 4 -> <<0, 2, 4, 2>>
       [] n = 5 -> <<0, 1, 4, 4, 1>>]

\* get_window(name, length, fftbins=True)
get_window(window, length) ==
  IF window = "hann"
  THEN [ok |-> TRUE, err |-> "none",
        val |-> [i \in 0..(length - 1) |-> HannTable[length][i + 1]]]
  ELSE [ok |-> FALSE, err |-> "UnsupportedWindowError", val |-> <<>>]

\* pad_center(data, size): zero-pad symmetrically, left pad (size - n) // 2
pad_center(data, n, size) ==
  LET lpad == (size - n) \div 2
  IN IF size < n
     THEN [ok |-> FALSE, err |-> "InvalidLengthError", val |-> <<>>]
     ELSE [ok |-> TRUE, err |-> "none",
           val |-> [i \in 0..(size - 1) |->
                      IF i >= lpad /\ i < lpad + n THEN data[i - lpad] ELSE 0]]

\* cos and sin of a multiple q of a quarter turn
Cos4(q) == <<1, 0, -1, 0>>[(q % 4) + 1]
Sin4(q) == <<0, 1, 0, -1>>[(q % 4) + 1]

\* dft_matrix(n)[x][y][ri]: cos and sin of -2*pi*x*y/n, for n in {2, 4}
dft_matrix(n) ==
  [x \in 0..(n - 1) |->
     [y \in 0..(n - 1) |->
        [ri \in 0..1 |->
           LET q == x * y * (4 \div n)
           IN IF ri = 0 THEN Cos4(q) ELSE 0 - Sin4(q)]]]

\* compute_fbank_matrix(sr, n_fft, n_mels, fmin, fmax): n_mels triangular
\* filters over the n_fft//2+1 bins, band edges evenly spaced between fmin
\* and fmax (the mel warping of the edges is left out); frequencies are
\* scaled by 2*n_fft*(n_mels+1) so that all values are integers.
\* FbankHalf takes fmin and fmax in half units (fmin2 = 2*fmin).
FbankHalf(sr, n_fft, n_mels, fmin2, fmax2) ==
  LET edge(j) == (fmin2 * (n_mels + 1) + j * (fmax2 - fmin2)) * n_fft
      freq(k) == 2 * k * sr * (n_mels + 1)
  IN [m \in 0..(n_mels - 1) |->
        [k \in 0..(n_fft \div 2) |->
           Max2(0, Min2(freq(k) - edge(m), edge(m + 2) - freq(k)))]]

compute_fbank_matrix(sr, n_fft, n_mels, fmin, fmax) ==
  FbankHalf(sr, n_fft, n_mels, 2 * fmin, 2 * fmax)

RECURSIVE ILog10(_)
\* floor(log10(x)) for x >= 1
ILog10(x) == IF x < 10 THEN 0 ELSE 1 + ILog10(x \div 10)

\* power_to_db(x) with ref = 1 and amin = 1: 10*log10(max(x, amin)/ref)
power_to_db(x) == 10 * ILog10(Max2(x, 1))

(***************************************************************************)
(* Constructors.  Each returns [ok, err, val]: val is the instance built,  *)
(* err the error raised when ok is FALSE.                                  *)
(***************************************************************************)
NoInstance == [kind |-> "none"]
NoArgs == [kind |-> "none"]
Failed(e) == [ok |-> FALSE, err |-> e, val |-> NoInstance]

\* STFT.__init__: win_length and hop_length after their defaults are applied
ResolvedWin(n_fft, win_length) ==
  IF win_length = None THEN n_fft ELSE win_length

ResolvedHop(n_fft, hop_length, win_length) ==
  IF hop_length = None
  THEN ResolvedWin(n_fft, win_length) \div 4
  ELSE hop_length

\* STFT_weight with the weight transposed to (2, out_channels, n_fft) before
\* the reshape: all real rows first, then all imaginary rows
STFT_weight_parts_major(n_fft, fft_window) ==
  LET out_channels == n_fft \div 2 + 1
      dft_mat == dft_matrix(n_fft)
  IN [c \in 0..(2 * out_channels - 1) |->
        [n \in 0..(n_fft - 1) |->
           fft_window[n] * dft_mat[n][c % out_channels][c \div out_channels]]]

\* STFT.__init__: the window-times-DFT weight loaded into the convolution,
\* weight[c][n] for channel c and tap n
STFT_weight(n_fft, fft_window) ==
  LET out_channels == n_fft \div 2 + 1
      dft_mat == dft_matrix(n_fft)
      \* fft_window.unsqueeze([1, 2]) * dft_mat[:, 0:out_channels, :]
      w0 == [n \in 0..(n_fft - 1) |->
               [k \in 0..(out_channels - 1) |->
                  [ri \in 0..1 |-> fft_window[n] * dft_mat[n][k][ri]]]]
      \* weight.transpose([1, 2, 0])
      w1 == [k \in 0..(out_channels - 1) |->
               [ri \in 0..1 |->
                  [n \in 0..(n_fft - 1) |-> w0[n][k][ri]]]]
  \* weight.reshape([-1, n_fft]): row-major over the two leading axes
  IN [c \in 0..(2 * out_channels - 1) |-> w1[c \div 2][c % 2]]

\* the stop_gradient flag STFT.__init__ writes on every parameter
STFT_stop_gradient == FALSE

\* STFT_pad_mode_ok without the check
STFT_pad_mode_unchecked(pad_mode) == TRUE

\* STFT.__init__: pad_mode is one of the supported modes
STFT_pad_mode_ok(pad_mode) == pad_mode \in {"constant", "reflect"}

STFT_init(n_fft, hop_length, win_length, window, center, pad_mode) ==
  IF ~STFT_pad_mode_ok(pad_mode)
  THEN Failed("AssertionError")
  ELSE
    LET wl == ResolvedWin(n_fft, win_length)
        hl == ResolvedHop(n_fft, hop_length, win_length)
        win == get_window(window, wl)
        fft_window == pad_center(win.val, wl, n_fft)
    IN IF ~win.ok THEN Failed(win.err)
       ELSE IF ~fft_window.ok THEN Failed(fft_window.err)
       ELSE [ok |-> TRUE, err |-> "none",
             val |-> [kind |-> "STFT",
                      n_fft |-> n_fft,
                      hop_length |-> hl,
                      win_length |-> wl,
                      window |-> window,
                      center |-> center,
                      pad_mode |-> pad_mode,
                      weight |-> STFT_weight(n_fft, fft_window.val),
                      stop_gradient |-> STFT_stop_gradient]]

Spectrogram_init(n_fft, hop_length, win_length, window, center, pad_mode, power) ==
  LET stft == STFT_init(n_fft, hop_length, win_length, window, center,
                        pad_mode)
  IN IF ~stft.ok THEN stft
     ELSE [ok |-> TRUE, err |-> "none",
           val |-> [kind |-> "Spectrogram",
                    power |-> power,
                    stft |-> stft.val]]

\* MelSpectrogram.__init__: the fmax handed to compute_fbank_matrix
ResolvedFmax(sr, fmax) == IF fmax = None THEN sr \div 2 ELSE fmax

MelSpectrogram_init(sr, n_fft, hop_length, win_length, window, center, pad_mode, power, n_mels, fmin, fmax) ==
  LET spectrogram == Spectrogram_init(n_fft, hop_length, win_length, window,
                                      center, pad_mode, power)
      fbank == compute_fbank_matrix(sr, n_fft, n_mels, fmin,
                                    ResolvedFmax(sr, fmax))
  IN IF ~spectrogram.ok THEN spectrogram
     ELSE [ok |-> TRUE, err |-> "none",
           val |-> [kind |-> "MelSpectrogram",
                    spectrogram |-> spectrogram.val,
                    n_mels |-> n_mels,
                    fmin |-> fmin,
                    fmax |-> fmax,
                    \* fbank_matrix.unsqueeze(0): a leading axis of size 1
                    fbank_matrix |-> [b \in 0..0 |-> fbank]]]

LogMelSpectrogram_init(sr, n_fft, hop_length, win_length, window, center, pad_mode, power, n_mels, fmin, fmax) ==
  LET mel == MelSpectrogram_init(sr, n_fft, hop_length, win_length, window,
                                 center, pad_mode, power, n_mels, fmin, fmax)
  IN IF ~mel.ok THEN mel
     ELSE [ok |-> TRUE, err |-> "none",
           val |-> [kind |-> "LogMelSpectrogram",
                    melspectrogram |-> mel.val]]

\* the nesting depth of an instance: how many stages its forward runs
Depth(o) ==
  CASE o.kind = "STFT" -> 1
    [] o.kind = "Spectrogram" -> 2
    [] o.kind = "MelSpectrogram" -> 3
    [] o.kind = "LogMelSpectrogram" -> 4
    [] OTHER -> 0

\* the owned sub-components, through the chain of ownership
MelOf(o) == IF o.kind = "LogMelSpectrogram" THEN o.melspectrogram ELSE o
SpectrogramOf(o) ==
  IF Depth(o) >= 3 THEN MelOf(o).spectrogram ELSE o
StftOf(o) == IF Depth(o) >= 2 THEN SpectrogramOf(o).stft ELSE o

\* the instance o with its STFT replaced by s
WithStft(o, s) ==
  CASE o.kind = "STFT" -> s
    [] o.kind = "Spectrogram" -> [o EXCEPT !.stft = s]
    [] o.kind = "MelSpectrogram" -> [o EXCEPT !.spectrogram.stft = s]
    [] o.kind = "LogMelSpectrogram" ->
         [o EXCEPT !.melspectrogram.spectrogram.stft = s]

(***************************************************************************)
(* Tensor operations of the framework                                      *)
(***************************************************************************)
Size(f) == Cardinality(DOMAIN f)

\* x.unsqueeze(1): (batch, samples) to (batch, 1, samples)
unsqueeze1(x) == [b \in DOMAIN x |-> [ch \in 0..0 |-> x[b]]]

\* paddle.nn.functional.pad(x, [p, p], mode, data_format="NCL"); reflect
\* padding mirrors about the edge samples and needs p < samples
pad(x, p, mode) ==
  LET L == Size(x[0][0])
      src(i) == IF i < p THEN p - i
                ELSE IF i >= p + L THEN 2 * (L - 1) - (i - p)
                ELSE i - p
  IN IF mode = "reflect" /\ p >= L
     THEN [ok |-> FALSE, err |-> "ValueError", val |-> <<>>]
     ELSE [ok |-> TRUE, err |-> "none",
           val |-> [b \in DOMAIN x |->
                      [ch \in 0..0 |->
                         [i \in 0..(L + 2 * p - 1) |->
                            IF mode = "reflect"
                            THEN x[b][ch][src(i)]
                            ELSE IF i >= p /\ i < p + L
                                 THEN x[b][ch][i - p]
                                 ELSE 0]]]]

\* nn.Conv1D(1, out_channels, kernel, stride, bias_attr=False) applied to x:
\* no padding, dilation 1; the output length is (L - (kernel-1) - 1)//stride + 1
Conv1D(x, weight, stride) ==
  LET L == Size(x[0][0])
      kernel == Size(weight[0])
      Lout == (L - (kernel - 1) - 1) \div stride + 1
  IN IF L < kernel
     THEN [ok |-> FALSE, err |-> "ValueError", val |-> <<>>]
     ELSE [ok |-> TRUE, err |-> "none",
           val |-> [b \in DOMAIN x |->
                      [c \in DOMAIN weight |->
                         [t \in 0..(Lout - 1) |->
                            SumTo([n \in 0..(kernel - 1) |->
                                     weight[c][n] * x[b][0][t * stride + n]],
                                  kernel)]]]]

\* paddle.bmm(x, y): both operands must have the same batch size
bmm(x, y) ==
  IF Size(x) # Size(y)
  THEN [ok |-> FALSE, err |-> "ValueError", val |-> <<>>]
  ELSE [ok |-> TRUE, err |-> "none",
        val |-> [b \in DOMAIN x |->
                   [m \in DOMAIN x[b] |->
                      [t \in DOMAIN y[b][0] |->
                         SumTo([f \in DOMAIN y[b] |-> x[b][m][f] * y[b][f][t]],
                               Size(y[b]))]]]]

(***************************************************************************)
(* Forward passes, one stage at a time.  Each stage returns [ok, err, val].*)
(***************************************************************************)
\* STFT.forward: unsqueeze and center padding
STFT_forward_pad(s, input) ==
  LET x == unsqueeze1(input)
  IN IF s.center
     THEN pad(x, s.n_fft \div 2, s.pad_mode)
     ELSE [ok |-> TRUE, err |-> "none", val |-> x]

\* STFT_forward_conv striding by the window length instead of the hop length
STFT_forward_conv_win_stride(s, x) == Conv1D(x, s.weight, s.win_length)

\* STFT.forward: the strided convolution
STFT_forward_conv(s, x) == Conv1D(x, s.weight, s.hop_length)

\* STFT.forward: transpose, reshape, transpose of the convolution output
STFT_forward_reshape(signal) ==
  LET C == Size(signal[0])
      T == Size(signal[0][0])
      \* signal.transpose([0, 2, 1])
      s1 == [b \in DOMAIN signal |->
               [t \in 0..(T - 1) |-> [c \in 0..(C - 1) |-> signal[b][c][t]]]]
      \* signal.reshape([B, T, C // 2, 2])
      s2 == [b \in DOMAIN signal |->
               [t \in 0..(T - 1) |->
                  [k \in 0..(C \div 2 - 1) |->
                     [ri \in 0..1 |-> s1[b][t][2 * k + ri]]]]]
  \* signal.transpose((0, 2, 1, 3))
  IN [b \in DOMAIN signal |->
        [k \in 0..(C \div 2 - 1) |->
           [t \in 0..(T - 1) |-> [ri \in 0..1 |-> s2[b][t][k][ri]]]]]

\* Spectrogram_forward_power raising to power instead of power / 2.0
Spectrogram_forward_power_whole(sp, fft_signal) ==
  [b \in DOMAIN fft_signal |->
     [k \in DOMAIN fft_signal[b] |->
        [t \in DOMAIN fft_signal[b][k] |->
           LET e == fft_signal[b][k][t][0] * fft_signal[b][k][t][0]
                    + fft_signal[b][k][t][1] * fft_signal[b][k][t][1]
           IN IF sp.power = 2 THEN e ELSE Pow(e, sp.power)]]]

\* Spectrogram.forward after the STFT: square, sum over the last axis, power
\* (power is even in this model, so power / 2.0 is a whole number)
Spectrogram_forward_power(sp, fft_signal) ==
  LET spectrogram ==
        [b \in DOMAIN fft_signal |->
           [k \in DOMAIN fft_signal[b] |->
              [t \in DOMAIN fft_signal[b][k] |->
                 fft_signal[b][k][t][0] * fft_signal[b][k][t][0]
                 + fft_signal[b][k][t][1] * fft_signal[b][k][t][1]]]]
  IN IF sp.power = 2
     THEN spectrogram
     ELSE [b \in DOMAIN spectrogram |->
             [k \in DOMAIN spectrogram[b] |->
                [t \in DOMAIN spectrogram[b][k] |->
                   Pow(spectrogram[b][k][t], sp.power \div 2)]]]

\* MelSpectrogram.forward after the spectrogram
MelSpectrogram_forward_bmm(mel, spectrogram) ==
  bmm(mel.fbank_matrix, spectrogram)

\* LogMelSpectrogram.forward after the mel spectrogram
LogMelSpectrogram_forward_db(mel_spectrogram) ==
  [b \in DOMAIN mel_spectrogram |->
     [m \in DOMAIN mel_spectrogram[b] |->
        [t \in DOMAIN mel_spectrogram[b][m] |->
           power_to_db(mel_spectrogram[b][m][t])]]]

(***************************************************************************)
(* A forward call in progress: pc is the stage to run next, x the tensor   *)
(* handed from stage to stage.                                             *)
(***************************************************************************)
NoInput == [ndim |-> 0, data |-> <<>>]
IdleCall == [pc |-> "idle", in |-> NoInput, x |-> <<>>, err |-> "none"]
NewCall(in) == [pc |-> "pad", in |-> in, x |-> in.data, err |-> "none"]
Ended(c) == c.pc \in {"idle", "done", "failed"}

FailCall(c, e) == [c EXCEPT !.pc = "failed", !.x = <<>>, !.err = e]
\* the stage after stage d of an instance of depth Depth(o)
NextPc(o, d, pc) == IF Depth(o) = d THEN "done" ELSE pc

\* one stage of the forward call c on instance o
Step(o, c) ==
  CASE c.pc = "pad" ->
         \* Spectrogram.forward checks the rank first; the framework's
         \* padding and convolution take (batch, 1, samples) only
         IF Depth(o) >= 2 /\ c.in.ndim # 2
         THEN FailCall(c, "AssertionError")
         ELSE IF c.in.ndim # 2
         THEN FailCall(c, "ValueError")
         ELSE LET r == STFT_forward_pad(StftOf(o), c.x)
              IN IF r.ok THEN [c EXCEPT !.pc = "conv", !.x = r.val]
                 ELSE FailCall(c, r.err)
    [] c.pc = "conv" ->
         LET r == STFT_forward_conv(StftOf(o), c.x)
         IN IF r.ok
            THEN [c EXCEPT !.pc = NextPc(o, 1, "power"),
                           !.x = STFT_forward_reshape(r.val)]
            ELSE FailCall(c, r.err)
    [] c.pc = "power" ->
         [c EXCEPT !.pc = NextPc(o, 2, "bmm"),
                   !.x = Spectrogram_forward_power(SpectrogramOf(o), c.x)]
    [] c.pc = "bmm" ->
         LET r == MelSpectrogram_forward_bmm(MelOf(o), c.x)
         IN IF r.ok
            THEN [c EXCEPT !.pc = NextPc(o, 3, "db"), !.x = r.val]
            ELSE FailCall(c, r.err)
    [] c.pc = "db" ->
         [c EXCEPT !.pc = "done", !.x = LogMelSpectrogram_forward_db(c.x)]

\* ForwardEffect of a forward that clears self.center once it has padded
ForwardEffect_clears_center(o, c) ==
  IF c.pc = "pad" THEN WithStft(o, [StftOf(o) EXCEPT !.center = FALSE]) ELSE o

\* what a stage of forward leaves as the instance: forward assigns no
\* attribute of self
ForwardEffect(o, c) == o

RECURSIVE Run(_, _)
\* the forward call c run to its end on instance o
Run(o, c) == IF Ended(c) THEN c ELSE Run(o, Step(o, c))

\* forward(in) run alone on instance o
forward(o, in) == Run(o, NewCall(in))

(***************************************************************************)
(* Inputs                                                                  *)
(***************************************************************************)
\* a test waveform of L samples in -2..2, different for each batch element
Signal(L, b) == [i \in 0..(L - 1) |-> (((i + 1) * (b + 2) + b) % 5) - 2]

\* (batch, samples) inputs, and one input of rank 3
Inputs ==
  {[ndim |-> 2, data |-> [b \in 0..(B - 1) |-> Signal(L, b)]] :
     B \in 1..MaxBatch, L \in 1..MaxLen}
  \cup {[ndim |-> 3, data |-> <<>>]}

(***************************************************************************)
(* Construction                                                            *)
(***************************************************************************)
\* the constructor call described by the argument record a
Build(a) ==
  CASE a.kind = "STFT" ->
         STFT_init(a.n_fft, a.hop_length, a.win_length, a.window, a.center,
                   a.pad_mode)
    [] a.kind = "Spectrogram" ->
         Spectrogram_init(a.n_fft, a.hop_length, a.win_length, a.window,
                          a.center, a.pad_mode, a.power)
    [] a.kind = "MelSpectrogram" ->
         MelSpectrogram_init(a.sr, a.n_fft, a.hop_length, a.win_length,
                             a.window, a.center, a.pad_mode, a.power,
                             a.n_mels, a.fmin, a.fmax)
    [] a.kind = "LogMelSpectrogram" ->
         LogMelSpectrogram_init(a.sr, a.n_fft, a.hop_length, a.win_length,
                                a.window, a.center, a.pad_mode, a.power,
                                a.n_mels, a.fmin, a.fmax)

\* a constructor call (the first one made): the instance exists only if the
\* constructor returns
Construct(a) ==
  /\ ResolvedHop(a.n_fft, a.hop_length, a.win_length) >= 1
  /\ args' = a
  /\ obj' = Build(a).val
  /\ err' = Build(a).err
  /\ UNCHANGED <<calls, trainSteps>>

ConstructSTFT ==
  /\ args.kind = "none"
  /\ \E n_fft \in NFFTs, hop_length \in HopLengths, win_length \in WinLengths,
        window \in Windows, center \in BOOLEAN, pad_mode \in PadModes :
       Construct([kind |-> "STFT", n_fft |-> n_fft, hop_length |-> hop_length,
                  win_length |-> win_length, window |-> window,
                  center |-> center, pad_mode |-> pad_mode])

ConstructSpectrogram ==
  /\ args.kind = "none"
  /\ \E n_fft \in NFFTs, hop_length \in HopLengths, win_length \in WinLengths,
        window \in Windows, center \in BOOLEAN, pad_mode \in PadModes,
        power \in Powers :
       Construct([kind |-> "Spectrogram", n_fft |-> n_fft,
                  hop_length |-> hop_length, win_length |-> win_length,
                  window |-> window, center |-> center, pad_mode |-> pad_mode,
                  power |-> power])

ConstructMelSpectrogram ==
  /\ args.kind = "none"
  /\ \E n_fft \in NFFTs, hop_length \in HopLengths, win_length \in WinLengths,
        window \in Windows, center \in BOOLEAN, pad_mode \in PadModes,
        power \in Powers, sr \in SampleRates, n_mels \in NMels,
        fmin \in Fmins, fmax \in Fmaxs :
       Construct([kind |-> "MelSpectrogram", n_fft |-> n_fft,
                  hop_length |-> hop_length, win_length |-> win_length,
                  window |-> window, center |-> center, pad_mode |-> pad_mode,
                  power |-> power, sr |-> sr, n_mels |-> n_mels,
                  fmin |-> fmin, fmax |-> fmax])

ConstructLogMelSpectrogram ==
  /\ args.kind = "none"
  /\ \E n_fft \in NFFTs, hop_length \in HopLengths, win_length \in WinLengths,
        window \in Windows, center \in BOOLEAN, pad_mode \in PadModes,
        power \in Powers, sr \in SampleRates, n_mels \in NMels,
        fmin \in Fmins, fmax \in Fmaxs :
       Construct([kind |-> "LogMelSpectrogram", n_fft |-> n_fft,
                  hop_length |-> hop_length, win_length |-> win_length,
                  window |-> window, center |-> center, pad_mode |-> pad_mode,
                  power |-> power, sr |-> sr, n_mels |-> n_mels,
                  fmin |-> fmin, fmax |-> fmax])

(***************************************************************************)
(* Forward calls                                                           *)
(***************************************************************************)
\* thread t enters forward
BeginForward(t) ==
  \E in \in Inputs :
    /\ obj.kind # "none"
    /\ Ended(calls[t])
    /\ calls' = [calls EXCEPT ![t] = NewCall(in)]
    /\ UNCHANGED <<obj, args, err, trainSteps>>

\* thread t runs the next stage of its forward call
ForwardStep(t) ==
  /\ ~Ended(calls[t])
  /\ calls' = [calls EXCEPT ![t] = Step(obj, calls[t])]
  /\ obj' = ForwardEffect(obj, calls[t])
  /\ UNCHANGED <<args, err, trainSteps>>

(***************************************************************************)
(* train_one_epoch: one iteration of its loop                              *)
(***************************************************************************)
\* optimizer.step(): every parameter whose stop_gradient is False moves
\* against its gradient (here g on every entry)
optimizer_step(o, g) ==
  LET s == StftOf(o)
  IN IF s.stop_gradient
     THEN o
     ELSE WithStft(o, [s EXCEPT !.weight =
                         [c \in DOMAIN s.weight |->
                            [n \in DOMAIN s.weight[c] |->
                               s.weight[c][n] - g]]])

\* pred = model(X); avg_loss.backward(); optimizer.step();
\* model.clear_gradients()
TrainStep ==
  \E in \in Inputs, g \in Grads :
    /\ obj.kind # "none"
    /\ trainSteps < MaxTrain
    /\ forward(obj, in).pc = "done"
    /\ obj' = optimizer_step(obj, g)
    /\ trainSteps' = trainSteps + 1
    /\ UNCHANGED <<args, err, calls>>

(***************************************************************************)
(* Specifications                                                          *)
(***************************************************************************)
Init ==
  /\ obj = NoInstance
  /\ args = NoArgs
  /\ err = "none"
  /\ calls = [t \in Threads |-> IdleCall]
  /\ trainSteps = 0

\* the transform on its own: construction, then forward calls by one caller
Next ==
  \/ ConstructSTFT
  \/ ConstructSpectrogram
  \/ ConstructMelSpectrogram
  \/ ConstructLogMelSpectrogram
  \/ BeginForward(1)
  \/ ForwardStep(1)

Spec == Init /\ [][Next]_vars

\* constructor calls that succeed, for the specifications that start from a
\* constructed instance
BuiltArgs ==
  {a \in
     {[kind |-> kind, n_fft |-> 4, hop_length |-> hop_length, win_length |-> None,
       window |-> "hann", center |-> center, pad_mode |-> pad_mode,
       power |-> 4, sr |-> 8, n_mels |-> 2, fmin |-> 0, fmax |-> None] :
        kind \in {"STFT", "Spectrogram", "MelSpectrogram",
                  "LogMelSpectrogram"},
        hop_length \in {1}, center \in BOOLEAN, pad_mode \in {"reflect"}} :
     Build(a).ok}

InitBuilt ==
  /\ args \in BuiltArgs
  /\ obj = Build(args).val
  /\ err = "none"
  /\ calls = [t \in Threads |-> IdleCall]
  /\ trainSteps = 0

\* concurrent forward calls on one instance
NextForward == \E t \in Threads : BeginForward(t) \/ ForwardStep(t)

SpecForward == InitBuilt /\ [][NextForward]_vars

\* forward calls and training iterations on one instance
NextTrain == BeginForward(1) \/ ForwardStep(1) \/ TrainStep

SpecTrain == InitBuilt /\ [][NextTrain]_vars

(***************************************************************************)
(* Properties                                                              *)
(***************************************************************************)
\* the call of the single caller of Spec
TheCall == calls[1]

\* the call holds the output of the STFT stage: the result of a call on an
\* STFT, or what a wrapping stage is about to consume
HoldsStft(c) ==
  \/ c.pc = "done" /\ Depth(obj) = 1
  \/ c.pc = "power"

\* the window of the constructor call a, centered in n_fft taps
WindowOf(a) ==
  pad_center(get_window(a.window, ResolvedWin(a.n_fft, a.win_length)).val, ResolvedWin(a.n_fft, a.win_length), a.n_fft).val

\* the padded signal the frames of the call's input are cut from
PaddedOf(a, in) ==
  IF a.center
  THEN pad(unsqueeze1(in.data), a.n_fft \div 2, a.pad_mode).val
  ELSE unsqueeze1(in.data)

\* real (ri = 0) or imaginary (ri = 1) part of bin k of the windowed frame t
\* of batch element b, by the definition of the DFT
DftBin(a, in, b, k, t, ri) ==
  LET n_fft == a.n_fft
      hop == ResolvedHop(a.n_fft, a.hop_length, a.win_length)
      w == WindowOf(a)
      xp == PaddedOf(a, in)
  IN SumTo([n \in 0..(n_fft - 1) |->
              w[n] * xp[b][0][t * hop + n]
              * (IF ri = 0 THEN Cos4(n * k * (4 \div n_fft))
                 ELSE 0 - Sin4(n * k * (4 \div n_fft)))],
           n_fft)

\* C1: the output of STFT.forward is ordered (batch, freq_bin, time_frame, 2)
\* with n_fft//2 + 1 bins, and entry [b][k][t][0] is the real part, entry
\* [b][k][t][1] the imaginary part, of bin k of the windowed frame t.
C1_StftLayout ==
  HoldsStft(TheCall) =>
    LET x == TheCall.x
        in == TheCall.in
    IN /\ DOMAIN x = DOMAIN in.data
       /\ \A b \in DOMAIN x :
            /\ DOMAIN x[b] = 0..(args.n_fft \div 2)
            /\ \A k \in DOMAIN x[b] :
                 /\ Size(x[b][k]) >= 1
                 /\ \A t \in DOMAIN x[b][k] :
                      /\ DOMAIN x[b][k][t] = 0..1
                      /\ \A ri \in 0..1 :
                           x[b][k][t][ri] = DftBin(args, in, b, k, t, ri)

\* C1 witness: an STFT returned two frames for a batch of two, and real and
\* imaginary parts of some bin differ
C1_Witness ==
  /\ obj.kind = "STFT"
  /\ TheCall.pc = "done"
  /\ Size(TheCall.x) = 2
  /\ Size(TheCall.x[0][0]) >= 2
  /\ \E b \in DOMAIN TheCall.x, k \in DOMAIN TheCall.x[0] :
       /\ TheCall.x[b][k][0][1] # 0
       /\ TheCall.x[b][k][0][0] # TheCall.x[b][k][0][1]

\* length of the signal of the call's input and of its padded form
SamplesOf(in) == Size(in.data[0])
PaddedLen(a, in) ==
  IF a.center THEN SamplesOf(in) + 2 * (a.n_fft \div 2) ELSE SamplesOf(in)

\* number of whole frames of length n_fft, hop apart, in the padded signal
FramesOf(a, in) ==
  (PaddedLen(a, in) - a.n_fft) \div ResolvedHop(a.n_fft, a.hop_length, a.win_length) + 1

HoldsSpectrogram(c) ==
  \/ c.pc = "done" /\ Depth(obj) = 2
  \/ c.pc = "bmm"

\* C3: Spectrogram.forward returns, at each (batch, freq, time), real^2 +
\* imag^2 of the STFT entry when power is 2.0 and that sum raised to power/2.0
\* otherwise; every value is non-negative and the shape is (batch, freq, time).
C3_SpectrogramPower ==
  HoldsSpectrogram(TheCall) =>
    LET x == TheCall.x
        stft == forward(StftOf(obj), TheCall.in).x
        energy(b, k, t) == stft[b][k][t][0] * stft[b][k][t][0] + stft[b][k][t][1] * stft[b][k][t][1]
    IN /\ DOMAIN x = DOMAIN stft
       /\ \A b \in DOMAIN x :
            /\ DOMAIN x[b] = DOMAIN stft[b]
            /\ \A k \in DOMAIN x[b] :
                 /\ DOMAIN x[b][k] = DOMAIN stft[b][k]
                 /\ \A t \in DOMAIN x[b][k] :
                      /\ x[b][k][t] >= 0
                      /\ args.power = 2 => x[b][k][t] = energy(b, k, t)
                      /\ args.power # 2 =>
                           x[b][k][t] = Pow(energy(b, k, t), args.power \div 2)

\* C3 witness: a Spectrogram with power other than 2.0 returned a value that
\* the power changes
C3_Witness ==
  /\ obj.kind = "Spectrogram"
  /\ TheCall.pc = "done"
  /\ args.power # 2
  /\ \E b \in DOMAIN TheCall.x, k \in DOMAIN TheCall.x[0], t \in DOMAIN TheCall.x[0][0] :
       TheCall.x[b][k][t] > 1

\* the call is a finished call on a MelSpectrogram whose Spectrogram stage
\* succeeds on the input
MelCallEnded(c) ==
  /\ obj.kind = "MelSpectrogram"
  /\ c.pc \in {"done", "failed"}
  /\ forward(SpectrogramOf(obj), c.in).pc = "done"

\* entry [b][m][t] of the filterbank applied to the spectrogram of batch
\* element b
MelEntry(o, in, b, m, t) ==
  LET spec == forward(SpectrogramOf(o), in).x
      fbank == MelOf(o).fbank_matrix[0]
  IN SumTo([f \in DOMAIN fbank[m] |-> fbank[m][f] * spec[b][f][t]], Size(fbank[m]))

\* C4: for every batch size B >= 1, MelSpectrogram.forward succeeds and
\* returns (B, n_mels, time_frames) with entry [b][m][t] the sum over f of
\* fbank[m][f] * spectrogram[b][f][t].
C4_MelBatch ==
  MelCallEnded(TheCall) =>
    LET x == TheCall.x
        spec == forward(SpectrogramOf(obj), TheCall.in).x
    IN /\ TheCall.pc = "done"
       /\ DOMAIN x = DOMAIN TheCall.in.data
       /\ \A b \in DOMAIN x :
            /\ DOMAIN x[b] = 0..(args.n_mels - 1)
            /\ \A m \in DOMAIN x[b] :
                 /\ DOMAIN x[b][m] = DOMAIN spec[b][0]
                 /\ \A t \in DOMAIN x[b][m] :
                      x[b][m][t] = MelEntry(obj, TheCall.in, b, m, t)

\* the constructor call a asks for a window longer than the frame or for a
\* pad mode other than constant and reflect
BadStftConfig(a) ==
  \/ ResolvedWin(a.n_fft, a.win_length) > a.n_fft
  \/ a.pad_mode \notin {"constant", "reflect"}

Fmax2(a) == IF a.fmax = None THEN a.sr ELSE 2 * a.fmax

\* 0 <= fmin < fmax <= sample_rate/2
ValidMelRange(a) ==
  /\ 0 <= a.fmin
  /\ 2 * a.fmin < Fmax2(a)
  /\ Fmax2(a) <= a.sr

\* C6: constructing a MelSpectrogram or LogMelSpectrogram whose fmin and
\* resolved fmax do not satisfy 0 <= fmin < fmax <= sample_rate/2 fails at
\* construction; no instance with such a range exists.
C6_BadMelRangeRejected ==
  (args.kind \in {"MelSpectrogram", "LogMelSpectrogram"} /\ ~ValidMelRange(args)) =>
    /\ obj = NoInstance
    /\ err # "none"

\* C7: the STFT weight is frozen by default: whatever forward calls and
\* training iterations have run, it equals the value computed at construction.
C7_WeightFrozen ==
  obj.kind # "none" =>
    StftOf(obj).weight = StftOf(Build(args).val).weight

\* C8: forward calls leave the instance as constructed, and every call, at
\* every stage and whatever the other thread does, ends with the result it
\* has when run alone on its input.
C8_ForwardReadOnly ==
  /\ obj = Build(args).val
  /\ \A t \in Threads :
       calls[t].pc # "idle" =>
         Run(obj, calls[t]) = forward(Build(args).val, calls[t].in)

\* C8 witness: two calls on different inputs overlap on a LogMelSpectrogram
C8_Witness ==
  /\ obj.kind = "LogMelSpectrogram"
  /\ calls[1].pc = "bmm"
  /\ calls[2].pc = "conv"
  /\ calls[1].in # calls[2].in

\* C10: when fmax is not supplied, the filterbank is the one whose upper
\* frequency edge is sample_rate/2, for odd sample rates too.
C10_DefaultFmax ==
  (obj.kind = "MelSpectrogram" /\ args.fmax = None) =>
    obj.fbank_matrix[0] = FbankHalf(args.sr, args.n_fft, args.n_mels, 2 * args.fmin, args.sr)

====
